---- MODULE Spec2Model ----
(***************************************************************************)
(* SkySync: the dynamic-DNS reconciliation loop of src/main.rs, with the   *)
(* Cloudflare client (services/cloudflare/service.rs) and the Discord      *)
(* webhook notifier (services/discord/webhooks.rs) it drives.              *)
(*                                                                         *)
(* Two tasks exist: main (startup, then a blocking spin that keeps the     *)
(* process alive) and the spawned loop task.  The loop body is cut at its  *)
(* await points: one action per stretch of code between two awaits.  A     *)
(* panic inside the spawned task ends that task only; a panic in main      *)
(* ends the process.                                                       *)
(***************************************************************************)
EXTENDS Naturals, Sequences, FiniteSets

\* ------------------------------------------------------------ bounds
MaxTicks == 3       \* ticks the model follows
MaxPending == 2     \* timer deadlines that may pile up behind a slow tick
MaxRecords == 2     \* records in the provider's zone
MaxFaults == 1      \* configuration faults (absent setting, bad interval) at once

\* ------------------------------------------------------- input domains
\* A string is a sequence of characters; characters are numbers, NL the newline.
NL == 0
IPs == {<<1>>, <<5>>}
\* What https://ipv4.icanhazip.com may answer: the address, with or without
\* its trailing newline.
Bodies == IPs \cup {ip \o <<NL>> : ip \in IPs}
DnsName == "home.example.com"
OtherName == "other.example.com"
ErrorLists == {<<>>, <<"rate limited">>, <<"rate limited", "record locked">>}
\* dns_records needs these three settings; each missing one is an Err (the ?).
ProviderSettings == {"CF_ZONE_ID", "CF_API_KEY", "CF_EMAIL"}
\* send_webhook_message reads these three settings, each with expect.
WebhookSettings == {"DISCORD_WEBHOOK_ID", "DISCORD_WEBHOOK_USERNAME",
                    "DISCORD_WEBHOOK_AVATAR"}
\* The settings read after startup; the tick body itself reads CF_DNS_NAME.
Settings == {"CF_DNS_NAME"} \cup ProviderSettings \cup WebhookSettings
\* CRON_INTERVAL: absent, not a u64, the u64 0, or a positive u64.
Intervals == {"missing", "malformed", "zero", "positive"}

\* Option<T> is a sequence of length 0 (None) or 1 (Some).
None == <<>>
Some(x) == <<x>>

VARIABLES
    env,            \* the settings present in the environment
    cron,           \* what CRON_INTERVAL holds, one of Intervals
    zone,           \* the provider's records, in listing order
    mainPc,         \* main: "start", "aborted", "spinning"
    pc,             \* the loop task's position
    pending,        \* interval deadlines elapsed and not yet consumed
    tickNo,         \* ticks started so far
    last_public_ip, \* Option<String>
    my_public_ip,   \* String
    record,         \* Option<record fetched in this tick>
    msg,            \* the tick's narrative, a sequence of blocks
    logFile,        \* content of log.txt, a sequence of blocks
    calls,          \* calls this tick has issued, in order
    updateArgs,     \* Option<arguments of this tick's update_dns_records call>
    update,         \* Option<UpdateResponse of this tick>
    panic,          \* Option<message of the panic that ended the loop task>
    notified,       \* notifications delivered in this tick
    appended,       \* messages write_log has written in this tick
    lastAtStart,    \* last_public_ip as the tick found it
    inProgress      \* numbers of the ticks whose body has started and not ended

vars == <<env, cron, zone, mainPc, pc, pending, tickNo, last_public_ip,
          my_public_ip, record, msg, logFile, calls, updateArgs, update, panic,
          notified, appended, lastAtStart, inProgress>>

\* ------------------------------------------------------------ helpers
\* String::replace("\n", ""): every newline is removed, wherever it stands.
StripNewlines(s) == SelectSeq(s, LAMBDA c : c # NL)

\* Variant: the last record with that name is taken instead of the first.
FindRecordLast(rs, name) ==
    LET hits == {i \in 1..Len(rs) : rs[i].name = name}
    IN  IF hits = {} THEN None
        ELSE Some(rs[CHOOSE i \in hits : \A j \in hits : i >= j])

\* result.into_iter().find(|x| x.name == dns_name): the first match, if any.
FindRecord(rs, name) ==
    LET hits == {i \in 1..Len(rs) : rs[i].name = name}
    IN  IF hits = {} THEN None
        ELSE Some(rs[CHOOSE i \in hits : \A j \in hits : i <= j])

\* The blocks format! pushes onto msg.
StartBlock(n) == <<"Running cron job", <<n>>>>
UnchangedBlock(ip) == <<"Public IP has not changed", ip>>
ChangedBlock(ip) == <<"Public IP has changed to", ip>>
UpToDateBlock(ip) == <<"Public IP is already up to date", ip>>

\* OpenOptions::new().write(true).open(..) then write_all: the file is opened
\* without append or truncate, so the message lands at offset 0 over what is there.
WriteAtStart(file, m) ==
    m \o (IF Len(file) > Len(m) THEN SubSeq(file, Len(m) + 1, Len(file)) ELSE <<>>)

\* The provider applies a successful update to the record with that id.
ApplyUpdate(rs, id, content) ==
    [i \in 1..Len(rs) |-> IF rs[i].id = id THEN [rs[i] EXCEPT !.content = content]
                          ELSE rs[i]]

Zones ==
    UNION {[1..n -> [id : {0}, name : {DnsName, OtherName}, content : IPs]]
           : n \in 0..MaxRecords}
\* Record ids are unique: the record at position i has id i.
WithIds(rs) == [i \in 1..Len(rs) |-> [rs[i] EXCEPT !.id = i]]

\* The configurations the process may be started in: at most MaxFaults faults.
Faults(e, c) == Cardinality(Settings \ e) + (IF c = "positive" THEN 0 ELSE 1)

Init ==
    /\ env \in SUBSET Settings
    /\ cron \in Intervals
    /\ Faults(env, cron) <= MaxFaults
    /\ zone \in {WithIds(z) : z \in Zones}
    /\ mainPc = "start"
    /\ pc = "unspawned"
    /\ pending = 0
    /\ tickNo = 0
    /\ last_public_ip = None
    /\ my_public_ip = <<>>
    /\ record = None
    /\ msg = <<>>
    /\ logFile = <<>>
    /\ calls = <<>>
    /\ updateArgs = None
    /\ update = None
    /\ panic = None
    /\ notified = <<>>
    /\ appended = <<>>
    /\ lastAtStart = None
    /\ inProgress = {}

\* ------------------------------------------------------------ actions
\* A panic unwinds the loop task: tokio catches it at the task boundary, the
\* task ends, and main (blocked in spawn_blocking) never learns of it.
Panics(m) ==
    /\ pc' = "panicked"
    /\ panic' = Some(m)
    /\ inProgress' = inProgress \ {tickNo}

\* main up to tokio::spawn: CRON_INTERVAL is read and parsed before the spawn,
\* and an expect failing here ends the process.  Afterwards main blocks forever.
MainStartup ==
    /\ mainPc = "start"
    /\ IF cron \in {"missing", "malformed"}
       THEN /\ mainPc' = "aborted"
            /\ pc' = pc
       ELSE /\ mainPc' = "spinning"
            /\ pc' = "spawned"
    /\ UNCHANGED <<env, cron, zone, pending, tickNo, last_public_ip, my_public_ip,
                   record, msg, logFile, calls, updateArgs, update, panic,
                   notified, appended, lastAtStart, inProgress>>

\* The spawned task's first poll: interval(interval_duration).  tokio's interval
\* panics on a zero period; otherwise its first tick completes immediately.
LoopInit ==
    /\ pc = "spawned"
    /\ IF cron = "zero"
       THEN /\ pc' = "panicked"
            /\ panic' = Some("period must be non-zero")
            /\ pending' = pending
       ELSE /\ pc' = "await_tick"
            /\ panic' = panic
            /\ pending' = 1
    /\ UNCHANGED <<env, cron, zone, mainPc, tickNo, last_public_ip, my_public_ip,
                   record, msg, logFile, calls, updateArgs, update,
                   notified, appended, lastAtStart, inProgress>>

\* The interval's next deadline passes, whatever the loop task is doing.  A
\* missed deadline is kept (tokio's default, Burst) and served as soon as the
\* task awaits tick() again.
TimerElapse ==
    /\ pc \notin {"unspawned", "spawned", "panicked"}
    /\ pending < MaxPending
    /\ pending' = pending + 1
    /\ UNCHANGED <<env, cron, zone, mainPc, pc, tickNo, last_public_ip,
                   my_public_ip, record, msg, logFile, calls, updateArgs, update,
                   panic, notified, appended, lastAtStart, inProgress>>

\* Variant: a body is started at every deadline, also while one is running
\* (a task spawned per tick instead of one loop).
LoopAwaitsTickOrBusy ==
    pc \in {"await_tick", "resolving", "querying", "updating", "notifying", "logging"}

\* The loop task is parked in interval.tick().await: the only place a tick
\* body can start from.
LoopAwaitsTick == pc = "await_tick"

\* interval.tick() returns; the body runs up to get_public_ip().await.
TickStart ==
    /\ LoopAwaitsTick
    /\ pending > 0
    /\ tickNo < MaxTicks
    /\ pending' = pending - 1
    /\ tickNo' = tickNo + 1
    /\ msg' = <<StartBlock(tickNo')>>
    /\ lastAtStart' = last_public_ip
    /\ my_public_ip' = <<>>
    /\ record' = None
    /\ updateArgs' = None
    /\ update' = None
    /\ notified' = <<>>
    /\ appended' = <<>>
    /\ IF "CF_DNS_NAME" \in env
       THEN /\ pc' = "resolving"
            /\ calls' = <<"get_public_ip">>
            /\ panic' = panic
            /\ inProgress' = inProgress \cup {tickNo'}
       ELSE /\ calls' = <<>>
            /\ Panics("Expected a DNS name in the environment")
    /\ UNCHANGED <<env, cron, zone, mainPc, last_public_ip, logFile>>

\* Variant: the first observation is not stored (line 99 left out).
DecideKeepsUnset(ip) ==
    IF last_public_ip # None
    THEN /\ last_public_ip' = (IF ip # last_public_ip[1] THEN Some(ip)
                               ELSE last_public_ip)
         /\ msg' = Append(msg, UnchangedBlock(ip))
         /\ calls' = Append(calls, "write_log")
         /\ pc' = "logging"
    ELSE /\ last_public_ip' = last_public_ip
         /\ msg' = Append(msg, ChangedBlock(ip))
         /\ calls' = Append(calls, "dns_records")
         /\ pc' = "querying"

\* Variant: the if let is left out, so every observation counts as a change
\* and goes on to the provider.
DecideAlwaysChanged(ip) ==
    /\ last_public_ip' = Some(ip)
    /\ msg' = Append(msg, ChangedBlock(ip))
    /\ calls' = Append(calls, "dns_records")
    /\ pc' = "querying"

\* Variant: the if let takes the stored address out of the Option
\* (last_public_ip.take()), and only a different observation puts one back.
DecideTakes(ip) ==
    IF last_public_ip # None
    THEN /\ last_public_ip' = (IF ip # last_public_ip[1] THEN Some(ip)
                               ELSE None)
         /\ msg' = Append(msg, UnchangedBlock(ip))
         /\ calls' = Append(calls, "write_log")
         /\ pc' = "logging"
    ELSE /\ last_public_ip' = Some(ip)
         /\ msg' = Append(msg, ChangedBlock(ip))
         /\ calls' = Append(calls, "dns_records")
         /\ pc' = "querying"

\* Variant: a different observation is not stored (line 89 left out).
DecideIgnoresChange(ip) ==
    IF last_public_ip # None
    THEN /\ last_public_ip' = last_public_ip
         /\ msg' = Append(msg, UnchangedBlock(ip))
         /\ calls' = Append(calls, "write_log")
         /\ pc' = "logging"
    ELSE /\ last_public_ip' = Some(ip)
         /\ msg' = Append(msg, ChangedBlock(ip))
         /\ calls' = Append(calls, "dns_records")
         /\ pc' = "querying"

\* The comparison of the observed address with the stored one (the if let).
\* With a stored address the branch always ends in the "has not changed" log
\* and continue; only without one does the tick go on to the provider.
Decide(ip) ==
    IF last_public_ip # None
    THEN /\ last_public_ip' = (IF ip # last_public_ip[1] THEN Some(ip)
                               ELSE last_public_ip)
         /\ msg' = Append(msg, UnchangedBlock(ip))
         /\ calls' = Append(calls, "write_log")
         /\ pc' = "logging"
    ELSE /\ last_public_ip' = Some(ip)
         /\ msg' = Append(msg, ChangedBlock(ip))
         /\ calls' = Append(calls, "dns_records")
         /\ pc' = "querying"

\* get_public_ip() returns or panics; then the body runs to its next await.
Resolved ==
    /\ pc = "resolving"
    /\ \/ /\ Panics("Failed to send request")
          /\ UNCHANGED <<last_public_ip, my_public_ip, msg, calls>>
       \/ \E body \in Bodies :
             /\ my_public_ip' = StripNewlines(body)
             /\ Decide(my_public_ip')
             /\ UNCHANGED <<panic, inProgress>>
    /\ UNCHANGED <<env, cron, zone, mainPc, pending, tickNo, record, logFile,
                   updateArgs, update, notified, appended, lastAtStart>>

\* Variant: the comparison of record.content with the observed address is left
\* out, so every fetched record is updated.
QueriedAlwaysUpdates ==
    /\ pc = "querying"
    /\ \/ /\ Panics("Failed to fetch DNS records")
          /\ UNCHANGED <<record, msg, calls, updateArgs>>
       \/ /\ ProviderSettings \subseteq env
          /\ LET found == FindRecord(zone, DnsName)
             IN  IF found = None
                 THEN /\ Panics("Failed to find DNS record")
                      /\ UNCHANGED <<record, msg, calls, updateArgs>>
                 ELSE /\ record' = found
                      /\ UNCHANGED <<panic, inProgress>>
                      /\ updateArgs' = Some([id |-> found[1].id,
                                             type |-> "A",
                                             name |-> DnsName,
                                             content |-> my_public_ip,
                                             ttl |-> 1,
                                             proxied |-> FALSE])
                      /\ calls' = Append(calls, "update_dns_records")
                      /\ pc' = "updating"
                      /\ msg' = msg
    /\ UNCHANGED <<env, cron, zone, mainPc, pending, tickNo, last_public_ip,
                   my_public_ip, logFile, update, notified, appended, lastAtStart>>

\* dns_records(None) returns; the record is looked up by name and compared.
Queried ==
    /\ pc = "querying"
    /\ \/ /\ Panics("Failed to fetch DNS records")
          /\ UNCHANGED <<record, msg, calls, updateArgs>>
       \/ /\ ProviderSettings \subseteq env
          /\ LET found == FindRecord(zone, DnsName)
             IN  IF found = None
                 THEN /\ Panics("Failed to find DNS record")
                      /\ UNCHANGED <<record, msg, calls, updateArgs>>
                 ELSE /\ record' = found
                      /\ UNCHANGED <<panic, inProgress>>
                      /\ IF found[1].content = my_public_ip
                         THEN /\ msg' = Append(msg, UpToDateBlock(my_public_ip))
                              /\ calls' = Append(calls, "write_log")
                              /\ pc' = "logging"
                              /\ updateArgs' = updateArgs
                         ELSE /\ updateArgs' = Some([id |-> found[1].id,
                                                     type |-> "A",
                                                     name |-> DnsName,
                                                     content |-> my_public_ip,
                                                     ttl |-> 1,
                                                     proxied |-> FALSE])
                              /\ calls' = Append(calls, "update_dns_records")
                              /\ pc' = "updating"
                              /\ msg' = msg
    /\ UNCHANGED <<env, cron, zone, mainPc, pending, tickNo, last_public_ip,
                   my_public_ip, logFile, update, notified, appended, lastAtStart>>

\* Variant: the last provider error is reported instead of the first.
LastError(errors) == errors[Len(errors)]

\* update.errors[0]: indexing an empty Vec panics.
FirstError(errors) == errors[1]

\* Variant: write_log(&msg) is moved up, in front of the success branch, so the
\* log is called for before the notification.
UpdatedLogsFirst ==
    /\ pc = "updating"
    /\ \/ /\ Panics("Failed to send request")
          /\ UNCHANGED <<zone, update, calls>>
       \/ \E resp \in [success : BOOLEAN, errors : ErrorLists] :
             /\ update' = Some(resp)
             /\ zone' = (IF resp.success
                         THEN ApplyUpdate(zone, updateArgs[1].id, updateArgs[1].content)
                         ELSE zone)
             /\ IF ~resp.success /\ resp.errors = <<>>
                THEN /\ Panics("index out of bounds")
                     /\ calls' = Append(calls, "write_log")
                ELSE /\ calls' = calls \o <<"write_log", "send_webhook_message">>
                     /\ pc' = "notifying"
                     /\ UNCHANGED <<panic, inProgress>>
    /\ UNCHANGED <<env, cron, mainPc, pending, tickNo, last_public_ip,
                   my_public_ip, record, msg, logFile, updateArgs,
                   notified, appended, lastAtStart>>

\* update_dns_records returns an UpdateResponse or panics (transport failure,
\* a body that is not an UpdateResponse); then the success branch picks the
\* notification.  Its own expect on the provider settings cannot fail here:
\* dns_records has read the same settings earlier in this tick.
Updated ==
    /\ pc = "updating"
    /\ \/ /\ Panics("Failed to send request")
          /\ UNCHANGED <<zone, update, calls>>
       \/ \E resp \in [success : BOOLEAN, errors : ErrorLists] :
             /\ update' = Some(resp)
             /\ zone' = (IF resp.success
                         THEN ApplyUpdate(zone, updateArgs[1].id, updateArgs[1].content)
                         ELSE zone)
             /\ IF ~resp.success /\ resp.errors = <<>>
                THEN /\ Panics("index out of bounds")
                     /\ calls' = calls
                ELSE /\ calls' = Append(calls, "send_webhook_message")
                     /\ pc' = "notifying"
                     /\ UNCHANGED <<panic, inProgress>>
    /\ UNCHANGED <<env, cron, mainPc, pending, tickNo, last_public_ip,
                   my_public_ip, record, msg, logFile, updateArgs,
                   notified, appended, lastAtStart>>

\* The notification main builds from the update response.
Notification(resp) ==
    [error |-> ~resp.success,
     domain |-> DnsName,
     detail |-> IF resp.success THEN "" ELSE FirstError(resp.errors)]

\* send_webhook_message returns or panics (a missing setting, Webhook::from_url
\* or execute failing); on return the body goes on to write_log.
Notified ==
    /\ pc = "notifying"
    /\ \/ /\ Panics(IF WebhookSettings \subseteq env
                    THEN "Could not execute webhook."
                    ELSE "Expected a webhook setting in the environment")
          /\ UNCHANGED <<notified, calls>>
       \/ /\ WebhookSettings \subseteq env
          /\ notified' = Append(notified, Notification(update[1]))
          /\ calls' = Append(calls, "write_log")
          /\ pc' = "logging"
          /\ UNCHANGED <<panic, inProgress>>
    /\ UNCHANGED <<env, cron, zone, mainPc, pending, tickNo, last_public_ip,
                   my_public_ip, record, msg, logFile, updateArgs, update,
                   appended, lastAtStart>>

\* write_log returns or panics (no data directory, the directory or the file
\* cannot be created, opened or written); on return the loop goes back to
\* interval.tick().await, by continue or by reaching the end of the body.
Logged ==
    /\ pc = "logging"
    /\ \/ /\ Panics("Failed to write to log file")
          /\ UNCHANGED <<logFile, appended>>
       \/ /\ logFile' = WriteAtStart(logFile, msg)
          /\ appended' = Append(appended, msg)
          /\ pc' = "await_tick"
          /\ panic' = panic
          /\ inProgress' = inProgress \ {tickNo}
    /\ UNCHANGED <<env, cron, zone, mainPc, pending, tickNo, last_public_ip,
                   my_public_ip, record, msg, calls, updateArgs, update,
                   notified, lastAtStart>>

Next ==
    \/ MainStartup
    \/ LoopInit
    \/ TimerElapse
    \/ TickStart
    \/ Resolved
    \/ Queried
    \/ Updated
    \/ Notified
    \/ Logged

Spec == Init /\ [][Next]_vars

\* ------------------------------------------------------------ claims
\* The resolver has answered in the current tick: the body has gone on to its
\* next call.
Observed == Len(calls) >= 2 /\ calls[1] = "get_public_ip"

\* The current tick's body is over: back at the timer, or ended by a panic.
TickOver == tickNo >= 1 /\ pc \in {"await_tick", "panicked"}

Count(s, x) == Cardinality({i \in DOMAIN s : s[i] = x})

\* Every setting is present and the interval is a positive number.
WellConfigured == env = Settings /\ cron = "positive"

\* C1: in a well-configured process, in a tick that finds LastKnownIP set and observes a different address,
\* LastKnownIP becomes the observed address and the provider is queried in that
\* tick (and updated when the fetched record differs).
C1_ChangedIpReconciles ==
    (WellConfigured /\ Observed /\ lastAtStart # None
        /\ my_public_ip # lastAtStart[1])
        => /\ last_public_ip = Some(my_public_ip)
           /\ calls[2] = "dns_records"
           /\ (record # None /\ record[1].content # my_public_ip
                  => Count(calls, "update_dns_records") = 1)

\* C2: in a tick that finds LastKnownIP unset and whose resolver call succeeds,
\* LastKnownIP is set to the observed address and the call after the resolver
\* is dns_records, with the narrative saying "has changed", never "has not
\* changed".
C2_FirstObservationQueries ==
    (Observed /\ lastAtStart = None)
        => /\ last_public_ip = Some(my_public_ip)
           /\ calls[2] = "dns_records"
           /\ msg = <<StartBlock(tickNo), ChangedBlock(my_public_ip)>>
                 \/ msg = <<StartBlock(tickNo), ChangedBlock(my_public_ip),
                            UpToDateBlock(my_public_ip)>>

C2_Witness ==
    /\ Observed /\ lastAtStart = None
    /\ pc = "querying"
    /\ my_public_ip \in IPs

\* C3: in a tick that finds LastKnownIP set and observes the same address, the
\* provider is neither queried nor updated, nothing is notified, LastKnownIP
\* keeps its value, and the only thing logged is the "has not changed" entry
\* (logged once the tick is over without a panic).
C3_UnchangedIsNoOp ==
    (Observed /\ lastAtStart # None /\ my_public_ip = lastAtStart[1])
        => /\ calls = <<"get_public_ip", "write_log">>
           /\ record = None /\ updateArgs = None /\ update = None
           /\ notified = <<>>
           /\ last_public_ip = lastAtStart
           /\ msg = <<StartBlock(tickNo), UnchangedBlock(my_public_ip)>>
           /\ appended \in {<<>>, <<msg>>}
           /\ (pc = "await_tick" => appended = <<msg>>)

C3_Witness ==
    /\ Observed /\ lastAtStart # None /\ my_public_ip = lastAtStart[1]
    /\ pc = "await_tick"
    /\ appended = <<msg>>

\* C4: in a well-configured process, in a tick that finds LastKnownIP set, observes a different address and
\* whose provider record already holds the observed address, no update call is
\* made, the narrative ends with "already up to date", and LastKnownIP becomes
\* the observed address.
C4_ChangedButProviderCurrent ==
    (/\ WellConfigured
     /\ Observed /\ lastAtStart # None /\ my_public_ip # lastAtStart[1]
     /\ FindRecord(zone, DnsName) # None
     /\ FindRecord(zone, DnsName)[1].content = my_public_ip)
        => /\ Count(calls, "update_dns_records") = 0
           /\ msg[Len(msg)] = UpToDateBlock(my_public_ip)
           /\ last_public_ip = Some(my_public_ip)

\* C5: in a well-configured process, once the update call of a tick has returned, exactly one notification
\* has been issued in that tick, for every response; what is delivered is a
\* non-error notification on success and an error notification carrying the
\* first error string otherwise.
C5_UpdateAlwaysNotifies ==
    (WellConfigured /\ update # None)
        => /\ Count(calls, "send_webhook_message") = 1
           /\ Len(notified) <= 1
           /\ \A i \in DOMAIN notified :
                 /\ notified[i].error = ~update[1].success
                 /\ (~update[1].success => notified[i].detail = update[1].errors[1])

\* C6: every tick that has started and is over, in a well-configured process,
\* has appended exactly one message to the log, and it is the tick's narrative.
C6_OneLogAppendPerTick ==
    (WellConfigured /\ TickOver) => appended = <<msg>>

\* C7: the loop task is never ended by a tick's resolver failure, provider
\* query failure or missing record.
PerTickFailures ==
    {"Failed to send request", "Failed to fetch DNS records",
     "Failed to find DNS record"}

C7_LoopSurvivesTickFailure ==
    (WellConfigured /\ pc = "panicked") => panic[1] \notin PerTickFailures

\* C8: in a well-configured process, when the notifier fails to deliver after an update call, the tick goes
\* on to its log append and the loop task stays alive.
C8_NotifierFailureIsolated ==
    (/\ WellConfigured
     /\ Count(calls, "send_webhook_message") = 1
     /\ pc # "notifying"
     /\ notified = <<>>)
        => /\ pc \in {"logging", "await_tick"}
           /\ Count(calls, "write_log") = 1

\* C9: with a configuration fault (a missing setting, a missing or malformed
\* interval) the loop never starts: no tick begins, nothing is called and
\* nothing is logged.
C9_MisconfigurationAbortsAtStartup ==
    (Settings \ env # {} \/ cron \in {"missing", "malformed"})
        => /\ tickNo = 0
           /\ calls = <<>>
           /\ logFile = <<>>

\* C10: at most one tick body is in progress in any state; a tick starts only
\* when no body is in progress, also when deadlines have piled up behind a slow
\* tick; and last_public_ip changes only in a step of the loop task's body
\* (the step after the resolver), never in a step of main or of the timer.
C10_TicksAreSerial ==
    /\ [](Cardinality(inProgress) <= 1)
    /\ [][tickNo' # tickNo => (inProgress = {} /\ pc = "await_tick")]_vars
    /\ [][last_public_ip' # last_public_ip
            => (pc = "resolving" /\ inProgress = {tickNo} /\ mainPc' = mainPc
                /\ pending' = pending)]_vars

C10_Witness ==
    /\ tickNo = 2
    /\ inProgress = {2}
    /\ pending = MaxPending

\* C11: last_public_ip, once Some, is never None again; and a step changes it
\* only when the tick has detected a change (it was None, or the address just
\* observed differs from the stored one), and then to the observed address.
C11_LastKnownIpSetOnceChangedOnDetection ==
    [][/\ (last_public_ip # None => last_public_ip' # None)
       /\ (last_public_ip' # last_public_ip
              => /\ pc = "resolving"
                 /\ last_public_ip = None \/ my_public_ip' # last_public_ip[1]
                 /\ last_public_ip' = Some(my_public_ip'))]_vars

\* A later tick has replaced a stored address by a different observed one.
C11_Witness ==
    /\ tickNo >= 2
    /\ lastAtStart # None
    /\ last_public_ip # None
    /\ last_public_ip # lastAtStart

\* The file content before a write is a prefix of the content after it.
IsPrefix(s, t) == Len(s) <= Len(t) /\ SubSeq(t, 1, Len(s)) = s

\* C12: in a well-configured process the log is append-only: every write_log leaves the earlier content in
\* place and adds the tick's narrative after it.
C12_LogIsAppendOnly ==
    [][(WellConfigured /\ logFile' # logFile)
         => /\ IsPrefix(logFile, logFile')
            /\ logFile' = logFile \o msg]_vars

\* C13: in the first tick (no stored address), once the provider has answered
\* with a record: it is the first record of the zone named as configured; when
\* its content differs from the observed address X (newline stripped), the
\* third call is update_dns_records with that record's id, type A, the
\* configured name, content X, TTL 1 and proxied = false; and after a successful
\* response one notification has been issued, none of them an error, and
\* last_public_ip is Some(X), also at the end of the tick.
C13_FirstTickPushesObservedIp ==
    (lastAtStart = None /\ Observed /\ record # None)
        => /\ \A i \in DOMAIN my_public_ip : my_public_ip[i] # NL
           /\ \E i \in DOMAIN zone :
                 /\ zone[i].id = record[1].id
                 /\ zone[i].name = DnsName
                 /\ \A j \in 1..(i - 1) : zone[j].name # DnsName
           /\ (record[1].content # my_public_ip
                 => /\ Len(calls) >= 3 /\ calls[3] = "update_dns_records"
                    /\ updateArgs = Some([id |-> record[1].id,
                                          type |-> "A",
                                          name |-> DnsName,
                                          content |-> my_public_ip,
                                          ttl |-> 1,
                                          proxied |-> FALSE]))
           /\ (update # None /\ update[1].success
                 => /\ Count(calls, "send_webhook_message") = 1
                    /\ last_public_ip = Some(my_public_ip)
                    /\ \A i \in DOMAIN notified : ~notified[i].error
                    /\ (pc = "await_tick"
                          => notified = <<[error |-> FALSE, domain |-> DnsName,
                                           detail |-> ""]>>))

\* The first tick has pushed the observed address, the provider has answered
\* success, the notification is delivered and the tick is over.
C13_Witness ==
    /\ lastAtStart = None /\ Observed
    /\ update # None /\ update[1].success
    /\ pc = "await_tick"
    /\ Len(notified) = 1
    /\ last_public_ip = Some(my_public_ip)
    /\ FindRecord(zone, DnsName)[1].content = my_public_ip

\* C14: a tick whose fetched record already holds the observed address makes
\* no update call and issues no notification: after the query it only logs
\* "already up to date"; and every update call carries a content different
\* from the content of the record fetched in that tick.
C14_UpdateOnlyOnDivergence ==
    /\ (record # None /\ record[1].content = my_public_ip)
          => /\ updateArgs = None /\ update = None
             /\ notified = <<>>
             /\ calls = <<"get_public_ip", "dns_records", "write_log">>
             /\ msg[Len(msg)] = UpToDateBlock(my_public_ip)
    /\ updateArgs # None
          => /\ record # None
             /\ updateArgs[1].content # record[1].content
             /\ updateArgs[1].content = my_public_ip

\* A tick has fetched a record that already holds the observed address and has
\* ended with its log entry.
C14_Witness ==
    /\ record # None /\ record[1].content = my_public_ip
    /\ pc = "await_tick"
    /\ appended = <<msg>>

InBandFailure ==
    update # None /\ ~update[1].success /\ update[1].errors # <<>>

\* The panics of the two sinks, the notifier and the log.
SinkFailures ==
    {"Could not execute webhook.", "Expected a webhook setting in the environment",
     "Failed to write to log file"}

\* C16: an in-band provider failure is tick-local.  Exactly one notification is
\* issued for it; the failure does not end the loop task (only a failing
\* notifier or log sink does); once the notifier has returned, the one
\* delivered notification is an error carrying the first error string; and the
\* tick then goes on to a single log append and back to the timer.
C16_InBandFailureIsTickLocal ==
    InBandFailure
        => /\ Count(calls, "send_webhook_message") = 1
           /\ (pc = "panicked" => panic[1] \in SinkFailures)
           /\ pc \in {"notifying", "logging", "await_tick", "panicked"}
           /\ (Count(calls, "write_log") = 1
                 => notified = <<[error |-> TRUE, domain |-> DnsName,
                                  detail |-> update[1].errors[1]]>>)
           /\ (pc = "await_tick"
                 => /\ calls = <<"get_public_ip", "dns_records",
                                 "update_dns_records", "send_webhook_message",
                                 "write_log">>
                    /\ appended = <<msg>>)

\* An update answered success = false with two error strings, the error
\* notification is delivered, the tick has logged, and the loop is back at the
\* timer with a deadline due and a further tick to run.
C16_Witness ==
    /\ InBandFailure
    /\ Len(update[1].errors) = 2
    /\ Len(notified) = 1
    /\ appended = <<msg>>
    /\ pc = "await_tick"
    /\ ENABLED TickStart

\* The calls of a tick that performs an update, in the order the body makes them.
UpdateTickOrder ==
    <<"get_public_ip", "dns_records", "update_dns_records",
      "send_webhook_message", "write_log">>

\* C17: in a tick that performs an update the calls are made in the order
\* resolver, record query, update, notification, log: what has been called so
\* far is always an initial part of that order; a notification is issued or
\* delivered only when the update call has returned; and the log is written
\* only after all four other calls, as the last effect of the tick.
C17_UpdateTickEffectsInOrder ==
    updateArgs # None
        => /\ IsPrefix(calls, UpdateTickOrder)
           /\ (Count(calls, "send_webhook_message") > 0 => update # None)
           /\ (notified # <<>> => update # None)
           /\ (Count(calls, "write_log") > 0 => Len(notified) = 1)
           /\ (appended # <<>>
                 => /\ calls = UpdateTickOrder
                    /\ appended = <<msg>>
                    /\ pc = "await_tick")

\* A tick has updated, notified and logged, and is over.
C17_Witness ==
    /\ updateArgs # None
    /\ update # None
    /\ Len(notified) = 1
    /\ appended = <<msg>>
    /\ calls = UpdateTickOrder

C19_CommittedBeforeProviderNeverRetried ==
    /\ [](Count(calls, "dns_records") > 0 => last_public_ip = Some(my_public_ip))
    /\ [][(pc \in {"querying", "updating", "notifying", "logging"})
            => (last_public_ip' = last_public_ip)]_vars
    /\ []((tickNo >= 2 /\ Observed /\ my_public_ip = lastAtStart[1])
            => (/\ Count(calls, "dns_records") = 0
                /\ Count(calls, "update_dns_records") = 0
                /\ pc # "querying" /\ pc # "updating"))

\* After a first tick whose update did not reach the provider's record, a
\* later tick has observed the same address, logged "has not changed" and
\* ended, and the record still holds the old content.
C19_Witness ==
    /\ tickNo >= 2
    /\ Observed
    /\ my_public_ip = lastAtStart[1]
    /\ pc = "await_tick"
    /\ appended = <<msg>>
    /\ FindRecord(zone, DnsName) # None
    /\ FindRecord(zone, DnsName)[1].content # my_public_ip

\* C20: from the moment the resolver has answered in a tick until the next
\* tick starts, and so at the end of the tick however it ends (logged, or
\* ended by a panic of a later call), last_public_ip is set and equals the
\* address observed in that tick, whichever branch the tick took.
C20_LastKnownIpIsObservedIp ==
    Observed
        => /\ last_public_ip # None
           /\ last_public_ip[1] = my_public_ip

\* A later tick that observed an address different from the stored one is over.
C20_Witness ==
    /\ Observed
    /\ TickOver
    /\ lastAtStart # None
    /\ my_public_ip # lastAtStart[1]
    /\ last_public_ip = Some(my_public_ip)

====
